---- MODULE Spec2Model ----
(***************************************************************************)
(* staticgraph.digraph: a static directed graph held as two CSR pairs      *)
(* (successors and predecessors), built once by make(), queried through    *)
(* the DiGraph methods and persisted by save()/load().                     *)
(*                                                                         *)
(* One graph object G and one store directory are followed.  Python's      *)
(* 0-based arrays are TLA+ sequences: Python arr[i] is arr[i + 1] here.    *)
(* The extension module staticgraph._edgelist (make, compact, swap) is     *)
(* modelled from the design document, sections 4.1 - 4.3: digraph.make     *)
(* calls no sort before its first compact, so edgelist.make is taken to    *)
(* return the edge list sorted, as section 4.3 step 2 requires.            *)
(***************************************************************************)
EXTENDS Integers, Sequences, FiniteSets

VARIABLES pc,          \* position inside make(): "start" before the call, "idle" after it returned
          n_nodes,     \* make's argument n_nodes
          in_edges,    \* make's argument edges, as the sequence the iterable produced
          es,          \* make's local es (the edge list)
          s_indptr, s_indices,   \* make's locals, successor CSR
          p_indptr, p_indices,   \* make's locals, predecessor CSR
          G,           \* the DiGraph object returned by make
          fs,          \* the path `store` on disk
          first_save,  \* how the first save() found the store: "none" (no save yet), "created", "overwrote"
          last         \* the last public call and its outcome

vars == <<pc, n_nodes, in_edges, es, s_indptr, s_indices, p_indptr, p_indices,
          G, fs, first_save, last>>

(***************************************************************************)
(* Bounds of the model.                                                    *)
(***************************************************************************)
MaxNodes == 3   \* n_nodes is at most this
MaxEdges == 3   \* the edge iterable produces at most this many pairs
MaxSize  == 4   \* n_nodes plus the number of pairs is at most this
MaxCount == 4   \* the count argument is at most this

NoGraph == [n_nodes |-> -1]
NoCall  == [op |-> "none"]

(***************************************************************************)
(* Outcomes of a call: a returned value or a raised exception.             *)
(***************************************************************************)
Ok(v)      == [kind |-> "ok", val |-> v]
IndexError == [kind |-> "IndexError"]
IOError    == [kind |-> "IOError"]

Range(s) == {s[i] : i \in 1..Len(s)}
Min(a, b) == IF a < b THEN a ELSE b
Max(a, b) == IF a > b THEN a ELSE b

(***************************************************************************)
(* numpy one-dimensional indexing arr[i]: a negative index counts from the *)
(* end, an index outside [-len, len) raises IndexError.                    *)
(***************************************************************************)
InBounds(arr, i) == -Len(arr) <= i /\ i < Len(arr)
At(arr, i) == IF i >= 0 THEN arr[i + 1] ELSE arr[Len(arr) + i + 1]

(***************************************************************************)
(* numpy basic slicing arr[start:stop]: negative bounds count from the     *)
(* end, bounds are clamped to [0, len], an empty range gives an empty      *)
(* array; slicing never raises.                                            *)
(***************************************************************************)
SliceBound(arr, i) == IF i < 0 THEN Max(Len(arr) + i, 0) ELSE Min(i, Len(arr))
Slice(arr, start, stop) ==
    LET lo == SliceBound(arr, start)
        hi == SliceBound(arr, stop)
    IN  IF lo >= hi THEN <<>> ELSE SubSeq(arr, lo + 1, hi)

(***************************************************************************)
(* staticgraph._edgelist, modelled from the design document.               *)
(* An edge list is a sequence of pairs <<first, second>>.                  *)
(***************************************************************************)
LeqPair(a, b) == a[1] < b[1] \/ (a[1] = b[1] /\ a[2] <= b[2])

IsSorted(s) == \A i \in 1..(Len(s) - 1) : LeqPair(s[i], s[i + 1])

\* insertion of one pair into an ascending sequence
RECURSIVE Insert(_, _)
Insert(x, s) ==
    IF s = <<>> THEN <<x>>
    ELSE IF LeqPair(x, Head(s)) THEN <<x>> \o s
    ELSE <<Head(s)>> \o Insert(x, Tail(s))

\* es.sort(): ascending by (first, second), in place
RECURSIVE sort(_)
sort(s) == IF s = <<>> THEN <<>> ELSE Insert(Head(s), sort(Tail(s)))

\* edgelist.swap(es): exchange the two components of every pair, in place
swap(s) == [i \in 1..Len(s) |-> <<s[i][2], s[i][1]>>]

\* edgelist.make(n_nodes, edges, count): storage for count pairs, filled from
\* the iterable, trimmed to the pairs actually produced, sorted ascending.
edgelist_make(n, edges_iter, count) ==
    LET buf     == [i \in 1..count |-> IF i <= Len(edges_iter) THEN edges_iter[i] ELSE <<0, 0>>]
        trimmed == SubSeq(buf, 1, Len(edges_iter))
    IN  sort(trimmed)

\* the forward scan of compact: pairs i..Len(s) remain, k is the node cursor,
\* ptr the index-pointer array written so far (ptr[j + 1] is indptr[j]).
RECURSIVE CompactScan(_, _, _, _)
CompactScan(s, i, k, ptr) ==
    IF i > Len(s) THEN [k |-> k, ptr |-> ptr]
    ELSE LET u    == s[i][1]
             ptr2 == [j \in DOMAIN ptr |-> IF k < j - 1 /\ j - 1 <= u THEN i - 1 ELSE ptr[j]]
         IN  CompactScan(s, i + 1, Max(k, u), ptr2)

\* edgelist.compact(n_nodes, es): one linear pass from sorted pairs to CSR
compact(n, s) ==
    LET scan == CompactScan(s, 1, 0, [j \in 1..(n + 1) |-> 0])
        ptr  == [j \in 1..(n + 1) |-> IF scan.k < j - 1 THEN Len(s) ELSE scan.ptr[j]]
    IN  [indptr |-> ptr, indices |-> [i \in 1..Len(s) |-> s[i][2]]]

(***************************************************************************)
(* class DiGraph                                                           *)
(***************************************************************************)
DiGraph(n, m, pp, pi, sp, si) ==
    [n_nodes |-> n, n_edges |-> m,
     p_indptr |-> pp, p_indices |-> pi,
     s_indptr |-> sp, s_indices |-> si]

\* the element width of the four arrays, chosen by the edge list module
ItemSize == 8

nbytes(self) ==
    Ok(Len(self.p_indptr) * ItemSize + Len(self.p_indices) * ItemSize
       + Len(self.s_indptr) * ItemSize + Len(self.s_indices) * ItemSize)

\* faulty variant of successors: the slice stops one entry early
successors_short(self, u) ==
    IF ~InBounds(self.s_indptr, u) \/ ~InBounds(self.s_indptr, u + 1) THEN IndexError
    ELSE Ok(Slice(self.s_indices, At(self.s_indptr, u), At(self.s_indptr, u + 1) - 1))

successors(self, u) ==
    IF ~InBounds(self.s_indptr, u) \/ ~InBounds(self.s_indptr, u + 1) THEN IndexError
    ELSE Ok(Slice(self.s_indices, At(self.s_indptr, u), At(self.s_indptr, u + 1)))

predecessors(self, v) ==
    IF ~InBounds(self.p_indptr, v) \/ ~InBounds(self.p_indptr, v + 1) THEN IndexError
    ELSE Ok(Slice(self.p_indices, At(self.p_indptr, v), At(self.p_indptr, v + 1)))

\* int(stop - start): the difference is taken over the integers
in_degree(self, v) ==
    IF ~InBounds(self.p_indptr, v) \/ ~InBounds(self.p_indptr, v + 1) THEN IndexError
    ELSE Ok(At(self.p_indptr, v + 1) - At(self.p_indptr, v))

out_degree(self, u) ==
    IF ~InBounds(self.s_indptr, u) \/ ~InBounds(self.s_indptr, u + 1) THEN IndexError
    ELSE Ok(At(self.s_indptr, u + 1) - At(self.s_indptr, u))

order(self) == Ok(self.n_nodes)

size(self) == Ok(self.n_edges)

\* xrange(n_nodes)
nodes(self) == Ok([i \in 1..self.n_nodes |-> i - 1])

\* the pairs the generator yields from node u on, in the order it yields them
RECURSIVE EdgesFrom(_, _)
EdgesFrom(self, u) ==
    IF u >= self.n_nodes THEN <<>>
    ELSE LET succ == successors(self, u).val
         IN  [i \in 1..Len(succ) |-> <<u, succ[i]>>] \o EdgesFrom(self, u + 1)

\* faulty variant of edges: each pair is yielded as (v, u)
RECURSIVE EdgesFromFlipped(_, _)
EdgesFromFlipped(self, u) ==
    IF u >= self.n_nodes THEN <<>>
    ELSE LET succ == successors(self, u).val
         IN  [i \in 1..Len(succ) |-> <<succ[i], u>>] \o EdgesFromFlipped(self, u + 1)

edges_flipped(self) == Ok(EdgesFromFlipped(self, 0))

edges(self) == Ok(EdgesFrom(self, 0))

has_node(self, u) == Ok(0 <= u /\ u < self.n_nodes)

\* faulty variant of has_edge: looks v up among the predecessors of u
has_edge_pred(self, u, v) ==
    IF predecessors(self, u).kind # "ok" THEN IndexError
    ELSE Ok(v \in Range(predecessors(self, u).val))

has_edge(self, u, v) ==
    IF successors(self, u).kind # "ok" THEN IndexError
    ELSE Ok(v \in Range(successors(self, u).val))

(***************************************************************************)
(* The store on disk.  fs is the path `store`: absent, a regular file, or  *)
(* a directory with its files.  base.pickle holds the pickled 2-tuple, a   *)
(* .npy file a header (the shape) and the raw items.                       *)
(***************************************************************************)
Absent  == [kind |-> "absent"]
RegFile == [kind |-> "file"]
Dir(files) == [kind |-> "dir", files |-> files]

pk_dump(n, m) == <<"tuple", n, m>>
pk_load(bytes) == <<bytes[2], bytes[3]>>

np_save(arr) == [shape |-> Len(arr), payload |-> arr]
np_load(file) == [i \in 1..file.shape |-> file.payload[i]]

\* the directory after save() wrote its five files
StoreOf(self) ==
    Dir([base      |-> pk_dump(self.n_nodes, self.n_edges),
         p_indptr  |-> np_save(self.p_indptr),
         p_indices |-> np_save(self.p_indices),
         s_indptr  |-> np_save(self.s_indptr),
         s_indices |-> np_save(self.s_indices)])

\* faulty variant of load: p_indptr is read from s_indptr.npy
load_crossed(store) ==
    IF store.kind # "dir" THEN IOError
    ELSE LET info == pk_load(store.files.base)
         IN  Ok(DiGraph(info[1], info[2],
                        np_load(store.files.s_indptr), np_load(store.files.p_indices),
                        np_load(store.files.s_indptr), np_load(store.files.s_indices)))

\* load(store): the graph read back, or the error of open() on a missing file
load(store) ==
    IF store.kind # "dir" THEN IOError
    ELSE LET info == pk_load(store.files.base)
         IN  Ok(DiGraph(info[1], info[2],
                        np_load(store.files.p_indptr), np_load(store.files.p_indices),
                        np_load(store.files.s_indptr), np_load(store.files.s_indices)))

(***************************************************************************)
(* Inputs.                                                                 *)
(***************************************************************************)
Pairs(n) == (0..(n - 1)) \X (0..(n - 1))
EdgeSeqs(n) == UNION {[1..m -> Pairs(n)] : m \in 0..Min(MaxEdges, MaxSize - n)}

\* a graph saved to the store by an earlier run: make(3, [(2,0),(0,1),(2,0),(1,1)], 4)
PrevGraph ==
    LET prev == <<<<2, 0>>, <<0, 1>>, <<2, 0>>, <<1, 1>>>>
        e1   == edgelist_make(3, prev, 4)
        s    == compact(3, e1)
        e2   == sort(swap(e1))
        p    == compact(3, e2)
    IN  DiGraph(3, Len(e2), p.indptr, p.indices, s.indptr, s.indices)

InitLocals ==
    /\ pc = "start"
    /\ n_nodes = 0
    /\ in_edges = <<>>
    /\ es = <<>>
    /\ s_indptr = <<>> /\ s_indices = <<>>
    /\ p_indptr = <<>> /\ p_indices = <<>>
    /\ G = NoGraph
    /\ first_save = "none"
    /\ last = NoCall

\* the store path does not exist yet
Init == InitLocals /\ fs = Absent

\* the store path is absent, a regular file, or a store an earlier run saved
InitStore == InitLocals /\ fs \in {Absent, RegFile, StoreOf(PrevGraph)}

(***************************************************************************)
(* make(n_nodes, edges, count), one action per statement.  Nothing else    *)
(* runs between its statements, and no graph exists before it returns.     *)
(***************************************************************************)
\* the pairs are valid node ids and count is at least their number
Make_edgelist(n, edges_iter, count) ==
    /\ pc = "start"
    /\ n_nodes' = n
    /\ in_edges' = edges_iter
    /\ es' = edgelist_make(n, edges_iter, count)
    /\ pc' = "compact_s"
    /\ UNCHANGED <<s_indptr, s_indices, p_indptr, p_indices, G, fs, first_save, last>>

Make_compact_s ==
    /\ pc = "compact_s"
    /\ s_indptr' = compact(n_nodes, es).indptr
    /\ s_indices' = compact(n_nodes, es).indices
    /\ pc' = "swap"
    /\ UNCHANGED <<n_nodes, in_edges, es, p_indptr, p_indices, G, fs, first_save, last>>

\* faulty variant of Make_swap: the call of edgelist.swap is missing
Make_swap_skipped ==
    /\ pc = "swap"
    /\ pc' = "sort"
    /\ UNCHANGED <<n_nodes, in_edges, es, s_indptr, s_indices, p_indptr, p_indices, G, fs, first_save, last>>

Make_swap ==
    /\ pc = "swap"
    /\ es' = swap(es)
    /\ pc' = "sort"
    /\ UNCHANGED <<n_nodes, in_edges, s_indptr, s_indices, p_indptr, p_indices, G, fs, first_save, last>>

\* faulty variant of Make_sort: the call of es.sort() is missing
Make_sort_skipped ==
    /\ pc = "sort"
    /\ pc' = "compact_p"
    /\ UNCHANGED <<n_nodes, in_edges, es, s_indptr, s_indices, p_indptr, p_indices, G, fs, first_save, last>>

Make_sort ==
    /\ pc = "sort"
    /\ es' = sort(es)
    /\ pc' = "compact_p"
    /\ UNCHANGED <<n_nodes, in_edges, s_indptr, s_indices, p_indptr, p_indices, G, fs, first_save, last>>

Make_compact_p ==
    /\ pc = "compact_p"
    /\ p_indptr' = compact(n_nodes, es).indptr
    /\ p_indices' = compact(n_nodes, es).indices
    /\ pc' = "return"
    /\ UNCHANGED <<n_nodes, in_edges, es, s_indptr, s_indices, G, fs, first_save, last>>

\* faulty variant of Make_return: s_indptr and s_indices passed in each other's place
Make_return_misordered ==
    /\ pc = "return"
    /\ G' = DiGraph(n_nodes, Len(es), p_indptr, p_indices, s_indices, s_indptr)
    /\ pc' = "idle"
    /\ last' = [op |-> "make"]
    /\ UNCHANGED <<n_nodes, in_edges, es, s_indptr, s_indices, p_indptr, p_indices, fs, first_save>>

\* faulty variant of Make_return: n_nodes passed as the number of edges
Make_return_n_edges ==
    /\ pc = "return"
    /\ G' = DiGraph(n_nodes, n_nodes, p_indptr, p_indices, s_indptr, s_indices)
    /\ pc' = "idle"
    /\ last' = [op |-> "make"]
    /\ UNCHANGED <<n_nodes, in_edges, es, s_indptr, s_indices, p_indptr, p_indices, fs, first_save>>

Make_return ==
    /\ pc = "return"
    /\ G' = DiGraph(n_nodes, Len(es), p_indptr, p_indices, s_indptr, s_indices)
    /\ pc' = "idle"
    /\ last' = [op |-> "make"]
    /\ UNCHANGED <<n_nodes, in_edges, es, s_indptr, s_indices, p_indptr, p_indices, fs, first_save>>

(***************************************************************************)
(* The calls on the returned graph.                                        *)
(***************************************************************************)
locals == <<pc, n_nodes, in_edges, es, s_indptr, s_indices, p_indptr, p_indices>>

\* the node ids the calls are tried with: every valid one, the nearest invalid
\* one on either side (-1 and n_nodes), and the lowest index numpy accepts for
\* an index-pointer array with the one below it
NodeIds == {-(G.n_nodes + 2), -(G.n_nodes + 1), -1} \cup (0..G.n_nodes)
ValidIds == 0..(G.n_nodes - 1)

Call(op, arg, res) ==
    /\ pc = "idle"
    /\ last' = [op |-> op, arg |-> arg, res |-> res]
    /\ UNCHANGED <<locals, G, fs, first_save>>

Nbytes == Call("nbytes", <<>>, nbytes(G))
Successors(u) == Call("successors", <<u>>, successors(G, u))
Predecessors(v) == Call("predecessors", <<v>>, predecessors(G, v))
In_degree(v) == Call("in_degree", <<v>>, in_degree(G, v))
Out_degree(u) == Call("out_degree", <<u>>, out_degree(G, u))
Order == Call("order", <<>>, order(G))
Size == Call("size", <<>>, size(G))
Nodes == Call("nodes", <<>>, nodes(G))
Edges == Call("edges", <<>>, edges(G))
Has_node(u) == Call("has_node", <<u>>, has_node(G, u))
Has_edge(u, v) == Call("has_edge", <<u, v>>, has_edge(G, u, v))

(***************************************************************************)
(* save(store, G) and load(store)                                          *)
(***************************************************************************)
\* faulty variant of Save: the index arrays of G are emptied once written
Save_clearing ==
    /\ pc = "idle"
    /\ fs' = IF fs.kind = "file" THEN fs ELSE StoreOf(G)
    /\ G' = IF fs.kind = "file" THEN G ELSE [G EXCEPT !.p_indices = <<>>, !.s_indices = <<>>]
    /\ first_save' = IF fs.kind = "file" \/ first_save # "none" THEN first_save
                     ELSE IF fs.kind = "absent" THEN "created" ELSE "overwrote"
    /\ last' = [op |-> "save", arg |-> <<>>,
                res |-> IF fs.kind = "file" THEN IOError ELSE Ok(<<>>)]
    /\ UNCHANGED locals

\* exists(store) false: mkdir; then the five files are written, replacing any
\* that were there.  A store path that is a regular file makes open() of
\* base.pickle raise before anything is written.
Save ==
    /\ pc = "idle"
    /\ fs' = IF fs.kind = "file" THEN fs ELSE StoreOf(G)
    /\ first_save' = IF fs.kind = "file" \/ first_save # "none" THEN first_save
                     ELSE IF fs.kind = "absent" THEN "created" ELSE "overwrote"
    /\ last' = [op |-> "save", arg |-> <<>>,
                res |-> IF fs.kind = "file" THEN IOError ELSE Ok(<<>>)]
    /\ UNCHANGED <<locals, G>>

Load ==
    /\ pc \in {"start", "idle"}
    /\ last' = [op |-> "load", arg |-> <<>>, res |-> load(fs)]
    /\ UNCHANGED <<locals, G, fs, first_save>>

Make ==
    \/ \E n \in 0..MaxNodes : \E e \in EdgeSeqs(n) : \E count \in Len(e)..MaxCount :
          Make_edgelist(n, e, count)
    \/ Make_compact_s
    \/ Make_swap
    \/ Make_sort
    \/ Make_compact_p
    \/ Make_return

Next ==
    \/ Make
    \/ Nbytes
    \/ \E u \in NodeIds : Successors(u)
    \/ \E v \in NodeIds : Predecessors(v)
    \/ \E v \in NodeIds : In_degree(v)
    \/ \E u \in NodeIds : Out_degree(u)
    \/ Order
    \/ Size
    \/ Nodes
    \/ Edges
    \/ \E u \in NodeIds : Has_node(u)
    \/ \E u \in (-1)..G.n_nodes : \E v \in ValidIds : Has_edge(u, v)
    \/ Save
    \/ Load

Spec == Init /\ [][Next]_vars

\* construction, save and load over every kind of store path
NextStore == Make \/ Save \/ Load

SpecStore == InitStore /\ [][NextStore]_vars

(***************************************************************************)
(* Properties.                                                             *)
(***************************************************************************)
Built == pc = "idle"

Count(x, s) == Cardinality({i \in 1..Len(s) : s[i] = x})

RECURSIVE SumTo(_, _)
SumTo(f, n) == IF n = 0 THEN 0 ELSE f[n - 1] + SumTo(f, n - 1)

Ascending(s) == \A i \in 1..(Len(s) - 1) : s[i] <= s[i + 1]

C3_DegreeSums ==
    Built =>
        LET outs == [u \in ValidIds |-> out_degree(G, u).val]
            ins  == [v \in ValidIds |-> in_degree(G, v).val]
        IN  /\ SumTo(outs, G.n_nodes) = SumTo(ins, G.n_nodes)
            /\ SumTo(ins, G.n_nodes) = Len(in_edges)
            /\ size(G) = Ok(Len(in_edges))

C3_Witness ==
    /\ Built
    /\ last.op = "out_degree"
    /\ last.res.kind = "ok"
    /\ last.res.val > 1
    /\ in_degree(G, last.arg[1]) = Ok(0)

\* C4: both index-pointer arrays have length n_nodes + 1, are non-decreasing,
\* start with 0 and end with n_edges, and both index arrays have length
\* n_edges; also with isolated nodes and with no edge at all.
C4_IndptrShape ==
    Built =>
        /\ \A ptr \in {G.s_indptr, G.p_indptr} :
              /\ Len(ptr) = G.n_nodes + 1
              /\ Ascending(ptr)
              /\ ptr[1] = 0
              /\ ptr[Len(ptr)] = G.n_edges
        /\ Len(G.s_indices) = G.n_edges
        /\ Len(G.p_indices) = G.n_edges

\* node 0 has no predecessor and the last node no successor, so one array
\* starts and the other ends with a node without entries
C4_Witness ==
    /\ Built
    /\ G.n_nodes > 1
    /\ G.n_edges > 0
    /\ in_degree(G, 0) = Ok(0)
    /\ out_degree(G, G.n_nodes - 1) = Ok(0)

C6_OutOfRangeFails ==
    (Built /\ last.op \in {"successors", "predecessors", "in_degree", "out_degree"}
           /\ last.arg[1] \notin ValidIds)
        => last.res.kind # "ok"

\* C7: load after save(store, G) gives a graph with the same order and size
\* and, node by node, the same successors and predecessors as G, whether the
\* store was created by the save or already held a saved graph.
C7_RoundTrip ==
    (Built /\ last.op = "load" /\ first_save # "none") =>
        /\ last.res.kind = "ok"
        /\ order(last.res.val) = order(G)
        /\ size(last.res.val) = size(G)
        /\ \A u \in ValidIds :
              /\ successors(last.res.val, u) = successors(G, u)
              /\ predecessors(last.res.val, u) = predecessors(G, u)

\* the save replaced a larger graph's store by that of a graph with edges
C7_Witness ==
    /\ Built
    /\ last.op = "load"
    /\ first_save = "overwrote"
    /\ G.n_edges > 0
    /\ G.n_edges < PrevGraph.n_edges
    /\ G.s_indices # G.p_indices

\* C8: once make has returned the graph, no query and no save changes any of
\* its six fields.
C8_Immutable == [][Built => G' = G]_vars

\* a query answered after a save that wrote the graph to disk
C8_Witness ==
    /\ Built
    /\ first_save = "created"
    /\ last.op = "successors"
    /\ last.res.kind = "ok"
    /\ Len(last.res.val) > 0

====
